---- MODULE Spec2Model ----
(***************************************************************************)
(* A model of easydist's pipeline-parallel runtime:                        *)
(*   easydist/torch/experimental/pp/runtime.py  (PipelineStage, Schedule,  *)
(*       ScheduleGPipe, ScheduleDAPPLE)                                    *)
(*   easydist/torch/experimental/pp/utils.py    (OneToOneMap)              *)
(*                                                                         *)
(* One process per pipeline stage.  Every process runs the straight-line   *)
(* program its schedule's __call__ unrolls to; the processes interleave    *)
(* freely and meet only in the transport (point-to-point FIFO channels     *)
(* per ordered pair of stages, and the all_gather of the returns).         *)
(*                                                                         *)
(* Tensors are symbolic: a value names the callable, chunk and batch that  *)
(* produced it and whether that callable was given the values of a correct *)
(* run, so a value that reaches the wrong chunk or the wrong placeholder   *)
(* is a different value and spoils what is computed from it.  Gradients    *)
(* are bags of such values and torch.add / add_ is bag union (a sum that   *)
(* is insensitive to the order of summation and to nothing else).          *)
(* Node names are integers; their order stands for the order of Python     *)
(* strings.                                                                *)
(***************************************************************************)
EXTENDS Integers, Sequences, FiniteSets, Bags, TLC

VARIABLES
    cfg,      \* what the stages were constructed with (fixed after Init)
    stage,    \* stage index -> the PipelineStage object's fields
    pc,       \* stage index -> position in the program of __call__ (0: not in a call)
    chan,     \* <<src, dst>> -> batches sent by src, not yet matched by a receive of dst
    pend,     \* <<src, dst>> -> receive batches posted by dst, not yet matched by a send
    gather,   \* stage index -> its contribution to the all_gather_object in flight
    obs,      \* stage index -> what the stage's callables and its caller observed
    otm,      \* a OneToOneMap under test
    plan,     \* a communication plan under test
    ret       \* a merge_chunked_returns reassembly under test

pipe_vars == <<cfg, stage, pc, chan, pend, gather, obs>>
vars == <<cfg, stage, pc, chan, pend, gather, obs, otm, plan, ret>>

-----------------------------------------------------------------------------
(* Bounds of the model *)

MaxStages == 3
MaxChunks == 3
MaxSteps == 2
MaxEdges == 3      \* dependencies in the metadata of a communication plan
MaxNames == 3      \* keys and values offered to a OneToOneMap
MaxAdds == 3       \* calls of OneToOneMap.add in a run

-----------------------------------------------------------------------------
(* Python values *)

None == <<"None">>

EmptyDict == <<>>

DictSet(d, k, v) == [x \in (DOMAIN d) \cup {k} |-> IF x = k THEN v ELSE d[x]]

\* dict.update: the entries of e are written over those of d
DictUpdate(d, e) == [x \in (DOMAIN d) \cup (DOMAIN e) |-> IF x \in DOMAIN e THEN e[x] ELSE d[x]]

Min(a, b) == IF a <= b THEN a ELSE b

RECURSIVE Rep(_, _)
\* the body of a for loop over range(n), unrolled
Rep(n, body) == IF n <= 0 THEN <<>> ELSE body \o Rep(n - 1, body)

-----------------------------------------------------------------------------
(* OneToOneMap (utils.py) *)

\* _map and _inv, and the keys of each in insertion order (the order in
\* which a dict is iterated)
OneToOneMapInit == [map |-> EmptyDict, inv |-> EmptyDict, map_keys |-> <<>>, inv_keys |-> <<>>]

get(m, key) == IF key \in DOMAIN m.map THEN m.map[key] ELSE "KeyError"

inv_get(m, key) == IF key \in DOMAIN m.inv THEN m.inv[key] ELSE "KeyError"

\* the condition under which add raises: both tests look in _map
add_raises(m, key, value) == key \in DOMAIN m.map \/ value \in DOMAIN m.map

\* variant: self._map[key] = value is done before the test, so a call that
\* raises has already written the forward table
add_assigns_before_raise(m, key, value) ==
    [map |-> DictSet(m.map, key, value),
     inv |-> IF add_raises(m, key, value) THEN m.inv ELSE DictSet(m.inv, value, key),
     map_keys |-> IF key \in DOMAIN m.map THEN m.map_keys ELSE Append(m.map_keys, key),
     inv_keys |-> IF add_raises(m, key, value) \/ value \in DOMAIN m.inv THEN m.inv_keys
                  ELSE Append(m.inv_keys, value)]

\* add: the map afterwards (unchanged when it raises)
add(m, key, value) ==
    IF add_raises(m, key, value)
    THEN m
    ELSE [map |-> DictSet(m.map, key, value),
          inv |-> DictSet(m.inv, value, key),
          map_keys |-> Append(m.map_keys, key),
          inv_keys |-> IF value \in DOMAIN m.inv THEN m.inv_keys
                       ELSE Append(m.inv_keys, value)]

\* inverse: a deep copy with _map and _inv swapped
inverse(m) ==
    [map |-> m.inv, inv |-> m.map, map_keys |-> m.inv_keys, inv_keys |-> m.map_keys]

RECURSIVE apply_items(_, _, _)
\* apply: mapping.add(k, other.get(v)) for the first n items of self, in
\* insertion order; raised once an add raises (RuntimeError) or other.get
\* finds no key (KeyError)
apply_items(self, other, n) ==
    IF n = 0 THEN [raised |-> FALSE, mapping |-> OneToOneMapInit]
    ELSE LET r == apply_items(self, other, n - 1)
             k == self.map_keys[n]
             v == self.map[k]
         IN IF r.raised THEN r
            ELSE IF v \notin DOMAIN other.map \/ add_raises(r.mapping, k, other.map[v])
                 THEN [raised |-> TRUE, mapping |-> r.mapping]
                 ELSE [raised |-> FALSE, mapping |-> add(r.mapping, k, other.map[v])]

apply(self, other) == apply_items(self, other, Len(self.map_keys))

-----------------------------------------------------------------------------
(* The partitioned program the compiler hands to the stages.               *)
(* fw_edges / bw_edges: <<producer stage, value name, consumer stage>>;    *)
(* inputs: <<name, stage>> raw step arguments a stage's forward takes;     *)
(* returns: <<stage, name>> declared return values and their producer.     *)

InputName(i) == 11 + i
X == InputName(0)
Y == InputName(1)

ActName(s) == 20 + s
Act2Name(s) == 30 + s
SkipName(s) == 40 + s
GradOf(n) == 100 + n
ReturnName(i) == 50 + i
OutName == ReturnName(0)
Out0Name == ReturnName(1)
ParamGradName(s) == 60 + s
ParamTorchName(s) == 70 + s
ParamNodeName(s) == 80 + s

\* two values per link, links that skip a stage, a raw argument on the last
\* stage and a return value produced by the first stage
SkipProgram(N) ==
    [fw_edges |-> {<<s, ActName(s), s + 1>> : s \in 0..(N - 2)}
                  \cup {<<s, Act2Name(s), s + 1>> : s \in 0..(N - 2)}
                  \cup {<<s, SkipName(s), s + 2>> : s \in 0..(N - 3)},
     bw_edges |-> {<<s + 1, GradOf(ActName(s)), s>> : s \in 0..(N - 2)}
                  \cup {<<s + 1, GradOf(Act2Name(s)), s>> : s \in 0..(N - 2)}
                  \cup {<<s + 2, GradOf(SkipName(s)), s>> : s \in 0..(N - 3)},
     inputs |-> {<<X, 0>>, <<Y, N - 1>>},
     returns |-> {<<N - 1, OutName>>, <<0, Out0Name>>}]

Program(N) == SkipProgram(N)

\* node.users of a stage's forward/backward node: (stage of the user, out_str)
NodeUsers(edges, s) == {<<e[3], e[2]>> : e \in {e \in edges : e[1] = s}}

\* node.kwargs of a stage's node: (producing stage, name), -1 for a placeholder
NodeKwargs(edges, inputs, s) ==
    {<<e[1], e[2]>> : e \in {e \in edges : e[3] = s}}
    \cup {<<-1, i[1]>> : i \in {i \in inputs : i[2] = s}}

-----------------------------------------------------------------------------
(* Communication plan (runtime.py, _create_send_info .. _create_recv_ops)  *)

\* the sort key: (x[0], x[1]) forward, (-x[0], x[1]) backward
SortKey(x, is_forward) == <<IF is_forward THEN x[1] ELSE -x[1], x[2]>>

KeyLeq(a, b) == a[1] < b[1] \/ (a[1] = b[1] /\ a[2] <= b[2])

RECURSIVE Sorted(_, _)
\* list.sort(key=...) of the candidate pairs
Sorted(S, is_forward) ==
    IF S = {} THEN <<>>
    ELSE LET m == CHOOSE x \in S :
                    \A y \in S : KeyLeq(SortKey(x, is_forward), SortKey(y, is_forward))
         IN <<m>> \o Sorted(S \ {m}, is_forward)

\* defaultdict(list)[k].append(v); a dict is kept as the sequence of its
\* <<key, list>> entries in insertion order
ListAppend(d, k, v) ==
    IF \E i \in 1..Len(d) : d[i][1] = k
    THEN [i \in 1..Len(d) |-> IF d[i][1] = k THEN <<k, Append(d[i][2], v)>> ELSE d[i]]
    ELSE Append(d, <<k, <<v>>>>)

DictKeys(d) == {d[i][1] : i \in 1..Len(d)}

DictGet(d, k) == LET i == CHOOSE i \in 1..Len(d) : d[i][1] = k IN d[i][2]

RECURSIVE send_info_by_stage(_, _)
send_info_by_stage(sorted, n) ==
    IF n = 0 THEN <<>>
    ELSE ListAppend(send_info_by_stage(sorted, n - 1), sorted[n][1], sorted[n][2])

\* variant: the sending side sorts with reverse=True
_create_send_info_reverse_sorted(users, is_forward) ==
    LET to_sort == Sorted(users, is_forward)
        reversed == [i \in 1..Len(to_sort) |-> to_sort[Len(to_sort) + 1 - i]]
    IN send_info_by_stage(reversed, Len(reversed))

_create_send_info(users, is_forward) ==
    LET to_sort == Sorted(users, is_forward)
    IN send_info_by_stage(to_sort, Len(to_sort))

StageKwargPlaceholder(input_name) ==
    [kind |-> "StageKwargPlaceholder", input_name |-> input_name, source |-> -1]

RecevPlaceholder(input_name, source) ==
    [kind |-> "RecevPlaceholder", input_name |-> input_name, source |-> source]

RECURSIVE kwargs_recv_info(_, _)
kwargs_recv_info(sorted, n) ==
    IF n = 0 THEN <<>>
    ELSE LET x == sorted[n]
         IN IF x[1] = -1
            THEN ListAppend(kwargs_recv_info(sorted, n - 1), 0, StageKwargPlaceholder(x[2]))
            ELSE ListAppend(kwargs_recv_info(sorted, n - 1), x[1], RecevPlaceholder(x[2], x[1]))

\* the assertion of _create_recv_info fails: a backward segment takes a raw
\* step argument
_create_recv_info_raises(kwargs, is_forward) == ~is_forward /\ \E x \in kwargs : x[1] = -1

\* the recv_info built when the assertion does not fail
_create_recv_info(kwargs, is_forward) ==
    LET to_sort == Sorted(kwargs, is_forward)
    IN kwargs_recv_info(to_sort, Len(to_sort))

RECURSIVE AscendingKeys(_)
AscendingKeys(K) ==
    IF K = {} THEN <<>>
    ELSE LET m == CHOOSE x \in K : \A y \in K : x <= y
         IN <<m>> \o AscendingKeys(K \ {m})

\* one batch of values per destination, in the order sorted(send_info.keys())
_create_send_ops(send_info, output_dict) ==
    LET dsts == AscendingKeys(DictKeys(send_info))
    IN [i \in 1..Len(dsts) |->
          LET nodes == DictGet(send_info, dsts[i])
          IN <<dsts[i], [j \in 1..Len(nodes) |-> output_dict[nodes[j]]]>>]

\* the names of the RecevPlaceholders of a per-source list, in order
RECURSIVE RecvNames(_, _)
RecvNames(ph_list, n) ==
    IF n = 0 THEN <<>>
    ELSE IF ph_list[n].kind = "RecevPlaceholder"
         THEN Append(RecvNames(ph_list, n - 1), ph_list[n].input_name)
         ELSE RecvNames(ph_list, n - 1)

\* variant: a receive is created for every placeholder, whatever its kind
_create_recv_ops_for_every_placeholder(recv_info) ==
    [i \in 1..Len(recv_info) |->
        <<recv_info[i][1],
          [j \in 1..Len(recv_info[i][2]) |-> recv_info[i][2][j].input_name]>>]

\* one batch of receive buffers per source, in the order of recv_info.items()
_create_recv_ops(recv_info) ==
    [i \in 1..Len(recv_info) |->
        <<recv_info[i][1], RecvNames(recv_info[i][2], Len(recv_info[i][2]))>>]

\* every placeholder of a plan, as a set
Placeholders(recv_info) ==
    UNION {{recv_info[i][2][j] : j \in 1..Len(recv_info[i][2])} : i \in 1..Len(recv_info)}

-----------------------------------------------------------------------------
(* The compiled callables of a stage (CompiledStage.forward / backward /   *)
(* step).  They are opaque to the runtime: each returns terms over         *)
(* what it was given and fills the stores passed to it.                    *)

TheProgram == Program(cfg.N)

FwOutNames(s) == {u[2] : u \in NodeUsers(TheProgram.fw_edges, s)}
BwOutNames(s) == {u[2] : u \in NodeUsers(TheProgram.bw_edges, s)}
RetNames(s) == {r[2] : r \in {r \in TheProgram.returns : r[1] = s}}
return_nodes_flatten == {r[2] : r \in TheProgram.returns}

\* The values of a correct run, by construction of the partitioned program:
\* what the forward (backward) of stage s is to be given for chunk k of batch t
ExpectedFwKwargs(s, t, k) ==
    [n \in {x[2] : x \in NodeKwargs(TheProgram.fw_edges, TheProgram.inputs, s)} |->
        LET x == CHOOSE y \in NodeKwargs(TheProgram.fw_edges, TheProgram.inputs, s) : y[2] = n
        IN IF x[1] = -1 THEN <<"in", n, t, k>> ELSE <<"fw", x[1], n, t, k, TRUE>>]

ExpectedBwKwargs(s, t, k) ==
    [n \in {x[2] : x \in NodeKwargs(TheProgram.bw_edges, {}, s)} |->
        LET x == CHOOSE y \in NodeKwargs(TheProgram.bw_edges, {}, s) : y[2] = n
        IN <<"bw", x[1], n, t, k, TRUE>>]

\* forward, called as the k-th forward of step t: the chunk's outputs, the
\* tensors saved for backward (only when a backward segment exists) and the
\* declared return values it produces.  A value is <<kind, stage, name, t, k,
\* good>>: good tells the value of a correct run from any other value, and a
\* callable returns good values exactly when it was given the expected ones.
CompiledForward(s, kw, t, k) ==
    LET good == kw = ExpectedFwKwargs(s, t, k)
    IN [out |-> [n \in FwOutNames(s) |-> <<"fw", s, n, t, k, good>>],
        saved |-> IF cfg.has_bw THEN kw ELSE EmptyDict,
        returns |-> [n \in RetNames(s) |-> <<"fw", s, n, t, k, good>>]]

\* backward: consumes the saved tensors, returns the gradients to send and
\* leaves the parameter gradients in the stores (those for the optimizer only
\* when a step segment exists)
CompiledBackward(s, saved, kw, t, k) ==
    LET good == kw = ExpectedBwKwargs(s, t, k) /\ saved = ExpectedFwKwargs(s, t, k)
        g == SetToBag({<<"grad", s, t, k, good>>})
    IN [out |-> [n \in BwOutNames(s) |-> <<"bw", s, n, t, k, good>>],
        saved |-> EmptyDict,
        saved_grads_step |-> IF cfg.has_step THEN (ParamGradName(s) :> g) ELSE EmptyDict,
        output_grads |-> (ParamGradName(s) :> g)]

\* step: takes the reduced gradients out of the store it is handed
CompiledStep(step_grads_reduced) == EmptyDict

\* compiled_meta.output_grads_map / input_params_map of a stage
output_grads_map(s) == add(OneToOneMapInit, ParamTorchName(s), ParamGradName(s))
input_params_map(s) == add(OneToOneMapInit, ParamTorchName(s), ParamNodeName(s))

\* split_args_kwargs_into_chunks: chunk k of the batch of step t
split_input_kwargs(t) ==
    [k \in 0..(cfg.C - 1) |->
        [n \in {i[1] : i \in TheProgram.inputs} |-> <<"in", n, t, k>>]]

\* merge_chunks: one merged value per name; None when no chunk holds one
merge_chunks(chunks) ==
    [n \in return_nodes_flatten |->
        IF \A k \in DOMAIN chunks : chunks[k][n] = None
        THEN None
        ELSE <<"merged", [k \in DOMAIN chunks |-> chunks[k][n]]>>]

-----------------------------------------------------------------------------
(* Schedules (runtime.py, ScheduleGPipe.__call__, ScheduleDAPPLE.__call__) *)
(* as the sequence of primitive calls their loops unroll to.  A receive    *)
(* that waits is its post followed by its wait.                            *)

\* variant: the forward receive never waits for its requests
forward_recv_never_waits(wait) == <<"fw_recv">>

forward_recv(wait) == IF wait THEN <<"fw_recv", "fw_wait">> ELSE <<"fw_recv">>
backward_recv(wait) == IF wait THEN <<"bw_recv", "bw_wait">> ELSE <<"bw_recv">>

\* variant: the gradients are merged before the sends are waited for
Finish_merges_before_wait(has_step) ==
    <<"merge_grads", "send_wait">> \o (IF has_step THEN <<"step">> ELSE <<>>)

Finish(has_step) ==
    <<"send_wait", "merge_grads">> \o (IF has_step THEN <<"step">> ELSE <<>>)

\* variant: the sends of the forward pass are waited for before the backward pass
ScheduleGPipe_waits_after_forward(num_chunks, has_bw, has_step) ==
    Rep(num_chunks, forward_recv(TRUE) \o <<"fw_comp", "fw_send">>)
    \o (IF has_bw
        THEN <<"send_wait">>
             \o Rep(num_chunks, backward_recv(TRUE) \o <<"bw_comp", "bw_send">>)
        ELSE <<>>)
    \o Finish(has_step)

ScheduleGPipe(num_chunks, has_bw, has_step) ==
    Rep(num_chunks, forward_recv(TRUE) \o <<"fw_comp", "fw_send">>)
    \o (IF has_bw
        THEN Rep(num_chunks, backward_recv(TRUE) \o <<"bw_comp", "bw_send">>)
        ELSE <<>>)
    \o Finish(has_step)

\* variant: the warm-up depth grows with the stage index instead of shrinking
num_warmup_reversed(num_stages, stage_idx, num_chunks) == Min(stage_idx + 1, num_chunks)

\* variant: the warm-up depth is not capped by the number of chunks
num_warmup_uncapped(num_stages, stage_idx, num_chunks) == num_stages - stage_idx

\* variant: the warm-up depth counts only the stages after this one
num_warmup_of_later_stages(num_stages, stage_idx, num_chunks) ==
    Min(num_stages - stage_idx - 1, num_chunks)

num_warmup(num_stages, stage_idx, num_chunks) == Min(num_stages - stage_idx, num_chunks)

\* variant: the cool-down starts one chunk late
ScheduleDAPPLE_short_cooldown(num_chunks, nw, has_step) ==
    Rep(nw, forward_recv(TRUE) \o <<"fw_comp", "fw_send">>)
    \o Rep(num_chunks - nw,
           backward_recv(TRUE) \o forward_recv(FALSE) \o <<"bw_comp", "bw_send">>
           \o <<"fw_wait", "fw_comp", "fw_send">>)
    \o Rep(num_chunks - (num_chunks - nw + 1), backward_recv(TRUE) \o <<"bw_comp", "bw_send">>)
    \o Finish(has_step)

\* variant: the warm-up runs the forwards of every chunk
ScheduleDAPPLE_full_warmup(num_chunks, nw, has_step) ==
    Rep(num_chunks, forward_recv(TRUE) \o <<"fw_comp", "fw_send">>)
    \o Rep(num_chunks, backward_recv(TRUE) \o <<"bw_comp", "bw_send">>)
    \o Finish(has_step)

\* variant: the steady state waits for the forward receive as soon as it is posted
ScheduleDAPPLE_eager_wait(num_chunks, nw, has_step) ==
    Rep(nw, forward_recv(TRUE) \o <<"fw_comp", "fw_send">>)
    \o Rep(num_chunks - nw,
           backward_recv(TRUE) \o forward_recv(TRUE) \o <<"bw_comp", "bw_send">>
           \o <<"fw_comp", "fw_send">>)
    \o Rep(num_chunks - (num_chunks - nw), backward_recv(TRUE) \o <<"bw_comp", "bw_send">>)
    \o Finish(has_step)

\* variant: each cool-down iteration also posts a forward receive
ScheduleDAPPLE_recv_in_cooldown(num_chunks, nw, has_step) ==
    Rep(nw, forward_recv(TRUE) \o <<"fw_comp", "fw_send">>)
    \o Rep(num_chunks - nw,
           backward_recv(TRUE) \o forward_recv(FALSE) \o <<"bw_comp", "bw_send">>
           \o <<"fw_wait", "fw_comp", "fw_send">>)
    \o Rep(num_chunks - (num_chunks - nw),
           backward_recv(TRUE) \o forward_recv(FALSE) \o <<"bw_comp", "bw_send">>)
    \o Finish(has_step)

ScheduleDAPPLE(num_chunks, nw, has_step) ==
    Rep(nw, forward_recv(TRUE) \o <<"fw_comp", "fw_send">>)
    \o Rep(num_chunks - nw,
           backward_recv(TRUE) \o forward_recv(FALSE) \o <<"bw_comp", "bw_send">>
           \o <<"fw_wait", "fw_comp", "fw_send">>)
    \o Rep(num_chunks - (num_chunks - nw), backward_recv(TRUE) \o <<"bw_comp", "bw_send">>)
    \o Finish(has_step)

\* PipelineStage.__call__ after the reset and the split: the schedule, then
\* merge_chunked_returns (its local part, then the all_gather_object)
CallProgram(c, s) ==
    (IF c.schedule = "GPipe"
     THEN ScheduleGPipe(c.C, c.has_bw, c.has_step)
     ELSE ScheduleDAPPLE(c.C, num_warmup(c.N, s, c.C), c.has_step))
    \o <<"merge_returns", "all_gather">>

-----------------------------------------------------------------------------
(* PipelineStage: construction (runtime.py, __init__, _init_communication, *)
(* _init_runtime_states)                                                   *)

Stages == 0..(cfg.N - 1)
Chunks == 0..(cfg.C - 1)
Pairs == Stages \X Stages

EmptyChunks(c) == [k \in 0..(c.C - 1) |-> EmptyDict]

\* materialize_zero: the buffer of every RecevPlaceholder of a plan
ZeroBuffers(recv_info) ==
    [n \in {ph.input_name : ph \in {q \in Placeholders(recv_info) : q.kind = "RecevPlaceholder"}}
        |-> <<"zero">>]

\* __init__: the communication plans (_init_communication), the runtime
\* states (_init_runtime_states), the placeholders' buffers, the parameters'
\* .grad and the schedule
PipelineStage(c, s) ==
    LET P == Program(c.N)
        fw_recv == _create_recv_info(NodeKwargs(P.fw_edges, P.inputs, s), TRUE)
        bw_recv == IF c.has_bw THEN _create_recv_info(NodeKwargs(P.bw_edges, {}, s), FALSE)
                   ELSE <<>>
    IN [fw_kwargs_recv_info |-> fw_recv,
        fw_act_send_info |-> _create_send_info(NodeUsers(P.fw_edges, s), TRUE),
        bw_kwargs_recv_info |-> bw_recv,
        bw_grad_send_info |-> IF c.has_bw
                              THEN _create_send_info(NodeUsers(P.bw_edges, s), FALSE)
                              ELSE <<>>,
        fw_buffer |-> ZeroBuffers(fw_recv),
        bw_buffer |-> ZeroBuffers(bw_recv),
        schedule |-> CallProgram(c, s),
        cur_fw_send_chunk |-> None,
        cur_bw_send_chunk |-> None,
        cur_fw_chunk_id |-> 0,
        cur_bw_chunk_id |-> 0,
        kwargs_chunks |-> EmptyChunks(c),
        saved_tensors_bw_chunks |-> EmptyChunks(c),
        saved_grads_step_chunks |-> EmptyChunks(c),
        output_grads_chunks |-> EmptyChunks(c),
        returns_chunks |-> EmptyChunks(c),
        output_grads_reduced |-> EmptyDict,
        step_grads_reduced |-> EmptyDict,
        param_grad |-> EmptyDict]

\* what is observed of a stage from outside
ObsInit(c) ==
    [calls |-> 0,             \* calls of the stage started
     done |-> 0,              \* calls of the stage that returned
     err |-> "none",          \* the exception the last call raised
     failed |-> FALSE,        \* whether a primitive of the stage ever raised
     result |-> None,         \* what the last call returned
     stepped |-> None,        \* the gradients the last step() handed to the optimizer
     trace |-> <<>>,          \* the primitives the last call ran, <<primitive, chunk>>
     consumed_fw |-> EmptyChunks(c),   \* the kwargs each forward compute was given
     consumed_bw |-> EmptyChunks(c)]   \* the kwargs each backward compute was given

\* steps: how many times the driver calls the stages
Configs(max_stages, max_chunks, steps) ==
    {c \in [N : 1..max_stages, C : 1..max_chunks, steps : {steps},
            schedule : {"GPipe", "DAPPLE"},
            accumulate_grads_inplace : BOOLEAN, has_bw : BOOLEAN, has_step : BOOLEAN] :
        /\ c.schedule = "DAPPLE" => c.has_bw      \* ScheduleDAPPLE.__init__ requires it
        /\ c.has_step => c.has_bw}

NoTest == <<>>

PipeInit(c) ==
    /\ cfg = c
    /\ stage = [s \in 0..(c.N - 1) |-> PipelineStage(c, s)]
    /\ pc = [s \in 0..(c.N - 1) |-> 0]
    /\ chan = [p \in (0..(c.N - 1)) \X (0..(c.N - 1)) |-> <<>>]
    /\ pend = [p \in (0..(c.N - 1)) \X (0..(c.N - 1)) |-> <<>>]
    /\ gather = [s \in 0..(c.N - 1) |-> None]
    /\ obs = [s \in 0..(c.N - 1) |-> ObsInit(c)]

-----------------------------------------------------------------------------
(* PipelineStage: the primitives (runtime.py)                              *)

\* the stage has run a primitive of its schedule on a chunk
Logged(ob, primitive, chunk) == [ob EXCEPT !.trace = Append(@, <<primitive, chunk>>)]

Op(s) == IF pc[s] \in 1..Len(stage[s].schedule) THEN stage[s].schedule[pc[s]] ELSE "idle"

AllEmpty(chunks) == \A k \in DOMAIN chunks : DOMAIN chunks[k] = {}

\* reset_and_check_runtime_states: the fields after the resets and the clear
reset_runtime_states(st) ==
    [st EXCEPT !.cur_fw_send_chunk = None, !.cur_bw_send_chunk = None,
               !.cur_fw_chunk_id = 0, !.cur_bw_chunk_id = 0,
               !.kwargs_chunks = [k \in DOMAIN st.kwargs_chunks |-> EmptyDict]]

\* variant: the returns are not asserted empty
check_runtime_states_without_returns(st) ==
    /\ AllEmpty(st.saved_tensors_bw_chunks)
    /\ AllEmpty(st.saved_grads_step_chunks)
    /\ AllEmpty(st.output_grads_chunks)
    /\ cfg.accumulate_grads_inplace =>
          /\ DOMAIN st.output_grads_reduced = {}
          /\ DOMAIN st.step_grads_reduced = {}

\* reset_and_check_runtime_states: whether every assertion passes
check_runtime_states(st) ==
    /\ AllEmpty(st.returns_chunks)
    /\ AllEmpty(st.saved_tensors_bw_chunks)
    /\ AllEmpty(st.saved_grads_step_chunks)
    /\ AllEmpty(st.output_grads_chunks)
    /\ cfg.accumulate_grads_inplace =>
          /\ DOMAIN st.output_grads_reduced = {}
          /\ DOMAIN st.step_grads_reduced = {}

\* __call__, up to the call of the schedule
Call(s) ==
    /\ pc[s] = 0
    /\ obs[s].calls < cfg.steps
    /\ LET st == reset_runtime_states(stage[s])
           ob == [obs[s] EXCEPT !.calls = @ + 1, !.err = "none", !.result = None,
                                !.stepped = None, !.trace = <<>>,
                                !.consumed_fw = EmptyChunks(cfg),
                                !.consumed_bw = EmptyChunks(cfg)]
       IN IF check_runtime_states(stage[s])
          THEN /\ stage' = [stage EXCEPT ![s] =
                              [st EXCEPT !.kwargs_chunks = split_input_kwargs(obs[s].calls)]]
               /\ pc' = [pc EXCEPT ![s] = 1]
               /\ obs' = [obs EXCEPT ![s] = ob]
          ELSE /\ stage' = [stage EXCEPT ![s] = st]
               /\ pc' = pc
               /\ obs' = [obs EXCEPT ![s] = [ob EXCEPT !.err = "AssertionError"]]
    /\ UNCHANGED <<cfg, chan, pend, gather, otm, plan, ret>>

\* the m-th tensor of a sent batch lands in the m-th buffer of the receive batch
Written(msg, names) ==
    [n \in {names[m] : m \in 1..Len(names)} |->
        msg[CHOOSE m \in 1..Len(names) : names[m] = n]]

\* The transport.  net = [chan, pend, st]: the batches in flight, the receive
\* batches posted and the stages (for their receive buffers).  On a pair of
\* stages the oldest batch sent meets the oldest receive batch posted as soon
\* as both exist, and is then written into the buffers of that receive.
Matched(net, p) ==
    IF net.chan[p] # <<>> /\ net.pend[p] # <<>>
       /\ Len(Head(net.chan[p])) = Len(Head(net.pend[p])[2])
    THEN LET msg == Head(net.chan[p])
             req == Head(net.pend[p])
         IN [chan |-> [net.chan EXCEPT ![p] = Tail(@)],
             pend |-> [net.pend EXCEPT ![p] = Tail(@)],
             st |-> [net.st EXCEPT ![p[2]] =
                       IF req[1] = "fw"
                       THEN [@ EXCEPT !.fw_buffer = DictUpdate(@, Written(msg, req[2]))]
                       ELSE [@ EXCEPT !.bw_buffer = DictUpdate(@, Written(msg, req[2]))]]]
    ELSE net

RECURSIVE PostRecvs(_, _, _, _, _)
\* maybe_batch_isend_irecv for every batch of irecv ops, in order: a batch with
\* no op posts nothing
PostRecvs(net, ops, n, s, tag) ==
    IF n = 0 THEN net
    ELSE LET r == PostRecvs(net, ops, n - 1, s, tag)
             p == <<ops[n][1], s>>
         IN IF Len(ops[n][2]) = 0 THEN r
            ELSE Matched([r EXCEPT !.pend[p] = Append(@, <<tag, ops[n][2]>>)], p)

RECURSIVE PostSends(_, _, _, _)
\* maybe_batch_isend_irecv for every batch of isend ops, in order
PostSends(net, ops, n, s) ==
    IF n = 0 THEN net
    ELSE LET r == PostSends(net, ops, n - 1, s)
             p == <<s, ops[n][1]>>
         IN IF Len(ops[n][2]) = 0 THEN r
            ELSE Matched([r EXCEPT !.chan[p] = Append(@, ops[n][2])], p)

Net == [chan |-> chan, pend |-> pend, st |-> stage]

\* forward_recv_one_chunk: the irecv batches are posted
forward_recv_one_chunk(s) ==
    /\ Op(s) = "fw_recv"
    /\ LET ops == _create_recv_ops(stage[s].fw_kwargs_recv_info)
           net == PostRecvs(Net, ops, Len(ops), s, "fw")
       IN chan' = net.chan /\ pend' = net.pend /\ stage' = net.st
    /\ pc' = [pc EXCEPT ![s] = @ + 1]
    /\ obs' = [obs EXCEPT ![s] = Logged(@, "fw_recv", stage[s].cur_fw_chunk_id)]
    /\ UNCHANGED <<cfg, gather, otm, plan, ret>>

\* backward_recv_one_chunk: the irecv batches are posted
backward_recv_one_chunk(s) ==
    /\ Op(s) = "bw_recv"
    /\ LET ops == _create_recv_ops(stage[s].bw_kwargs_recv_info)
           net == PostRecvs(Net, ops, Len(ops), s, "bw")
       IN chan' = net.chan /\ pend' = net.pend /\ stage' = net.st
    /\ pc' = [pc EXCEPT ![s] = @ + 1]
    /\ obs' = [obs EXCEPT ![s] = Logged(@, "bw_recv", stage[s].cur_bw_chunk_id)]
    /\ UNCHANGED <<cfg, gather, otm, plan, ret>>

\* the receives of a direction that a stage has posted and that are not complete
PendingRecvs(s, tag) ==
    {p \in Pairs : p[2] = s /\ \E i \in 1..Len(pend[p]) : pend[p][i][1] = tag}

\* req.wait() on every receive request of the direction
recv_wait(s) ==
    /\ \/ /\ Op(s) = "fw_wait" /\ PendingRecvs(s, "fw") = {}
          /\ obs' = [obs EXCEPT ![s] = Logged(@, "fw_wait", stage[s].cur_fw_chunk_id)]
       \/ /\ Op(s) = "bw_wait" /\ PendingRecvs(s, "bw") = {}
          /\ obs' = [obs EXCEPT ![s] = Logged(@, "bw_wait", stage[s].cur_bw_chunk_id)]
    /\ pc' = [pc EXCEPT ![s] = @ + 1]
    /\ UNCHANGED <<cfg, stage, chan, pend, gather, otm, plan, ret>>

\* variant: the placeholder's buffer itself is handed on, not a copy
clone_shares_storage(buffer, name) == <<"buffer", name>>

\* ph.buffer.clone(): a tensor of its own holding what the placeholder's
\* buffer holds at the call
clone(buffer, name) == buffer[name]

\* what the tensors of a dict hold now: a tensor that is a receive buffer
\* holds what was last written into the buffer
Contents(kwargs, buffer) ==
    [n \in DOMAIN kwargs |->
        IF kwargs[n][1] = "buffer" THEN buffer[kwargs[n][2]] ELSE kwargs[n]]

\* collect_kwargs
collect_kwargs(recv_info, buffer, chunk_kwargs) ==
    [n \in {ph.input_name : ph \in Placeholders(recv_info)} |->
        LET ph == CHOOSE q \in Placeholders(recv_info) : q.input_name = n
        IN IF ph.kind = "RecevPlaceholder" THEN clone(buffer, n) ELSE chunk_kwargs[n]]

\* forward_compute_one_chunk, as the k-th forward of step t: the fields afterwards
forward_compute(st, s, t) ==
    LET k == st.cur_fw_chunk_id
        kw == collect_kwargs(st.fw_kwargs_recv_info, st.fw_buffer, st.kwargs_chunks[k])
        r == CompiledForward(s, Contents(kw, st.fw_buffer), t, k)
        \* the tensors saved for backward are the tensors handed in
        saved == [n \in DOMAIN r.saved |-> kw[n]]
    IN [st EXCEPT !.cur_fw_send_chunk = r.out,
                  !.saved_tensors_bw_chunks[k] = DictUpdate(@, saved),
                  !.returns_chunks[k] = DictUpdate(@, r.returns),
                  !.cur_fw_chunk_id = @ + 1]

\* forward_compute_one_chunk (an IndexError when the cursor is past the chunks)
forward_compute_one_chunk(s) ==
    /\ Op(s) = "fw_comp"
    /\ LET st == stage[s]
           k == st.cur_fw_chunk_id
       IN IF k \in Chunks
          THEN /\ stage' = [stage EXCEPT ![s] = forward_compute(st, s, obs[s].calls - 1)]
               /\ obs' = [obs EXCEPT ![s] = Logged(
                            [@ EXCEPT !.consumed_fw[k] =
                                Contents(collect_kwargs(st.fw_kwargs_recv_info, st.fw_buffer,
                                                        st.kwargs_chunks[k]),
                                         st.fw_buffer)], "fw_comp", k)]
               /\ pc' = [pc EXCEPT ![s] = @ + 1]
          ELSE /\ obs' = [obs EXCEPT ![s].err = "IndexError"]
               /\ pc' = [pc EXCEPT ![s] = 0]
               /\ stage' = stage
    /\ UNCHANGED <<cfg, chan, pend, gather, otm, plan, ret>>

\* forward_send_one_chunk
forward_send_one_chunk(s) ==
    /\ Op(s) = "fw_send"
    /\ LET ops == _create_send_ops(stage[s].fw_act_send_info, stage[s].cur_fw_send_chunk)
           net == PostSends(Net, ops, Len(ops), s)
       IN chan' = net.chan /\ pend' = net.pend /\ stage' = net.st
    /\ pc' = [pc EXCEPT ![s] = @ + 1]
    /\ obs' = [obs EXCEPT ![s] = Logged(@, "fw_send", stage[s].cur_fw_chunk_id - 1)]
    /\ UNCHANGED <<cfg, gather, otm, plan, ret>>

\* the in-place accumulation of one chunk's gradients into a reduced dict
accumulate(reduced, grads) ==
    [g \in (DOMAIN reduced) \cup (DOMAIN grads) |->
        IF g \in DOMAIN grads
        THEN IF g \in DOMAIN reduced THEN reduced[g] (+) grads[g] ELSE grads[g]
        ELSE reduced[g]]

\* backward_compute_one_chunk, as the k-th backward of step t: the fields afterwards
backward_compute(st, s, t) ==
    LET k == st.cur_bw_chunk_id
        kw == collect_kwargs(st.bw_kwargs_recv_info, st.bw_buffer, st.kwargs_chunks[k])
        r == CompiledBackward(s, Contents(st.saved_tensors_bw_chunks[k], st.fw_buffer),
                              Contents(kw, st.bw_buffer), t, k)
        grads_step == DictUpdate(st.saved_grads_step_chunks[k], r.saved_grads_step)
        grads_out == DictUpdate(st.output_grads_chunks[k], r.output_grads)
        st1 == [st EXCEPT !.cur_bw_send_chunk = r.out,
                          !.saved_tensors_bw_chunks[k] = r.saved,
                          !.saved_grads_step_chunks[k] = grads_step,
                          !.output_grads_chunks[k] = grads_out,
                          !.cur_bw_chunk_id = @ + 1]
    IN IF cfg.accumulate_grads_inplace
       THEN [st1 EXCEPT !.step_grads_reduced = accumulate(@, grads_step),
                        !.saved_grads_step_chunks[k] = EmptyDict,
                        !.output_grads_reduced = accumulate(@, grads_out),
                        !.output_grads_chunks[k] = EmptyDict]
       ELSE st1

\* backward_compute_one_chunk (an IndexError when the cursor is past the chunks)
backward_compute_one_chunk(s) ==
    /\ Op(s) = "bw_comp"
    /\ LET st == stage[s]
           k == st.cur_bw_chunk_id
       IN IF k \in Chunks
          THEN /\ stage' = [stage EXCEPT ![s] = backward_compute(st, s, obs[s].calls - 1)]
               /\ obs' = [obs EXCEPT ![s] = Logged(
                            [@ EXCEPT !.consumed_bw[k] =
                                Contents(collect_kwargs(st.bw_kwargs_recv_info, st.bw_buffer,
                                                        st.kwargs_chunks[k]),
                                         st.bw_buffer)], "bw_comp", k)]
               /\ pc' = [pc EXCEPT ![s] = @ + 1]
          ELSE /\ obs' = [obs EXCEPT ![s].err = "IndexError"]
               /\ pc' = [pc EXCEPT ![s] = 0]
               /\ stage' = stage
    /\ UNCHANGED <<cfg, chan, pend, gather, otm, plan, ret>>

\* backward_send_one_chunk
backward_send_one_chunk(s) ==
    /\ Op(s) = "bw_send"
    /\ LET ops == _create_send_ops(stage[s].bw_grad_send_info, stage[s].cur_bw_send_chunk)
           net == PostSends(Net, ops, Len(ops), s)
       IN chan' = net.chan /\ pend' = net.pend /\ stage' = net.st
    /\ pc' = [pc EXCEPT ![s] = @ + 1]
    /\ obs' = [obs EXCEPT ![s] = Logged(@, "bw_send", stage[s].cur_bw_chunk_id - 1)]
    /\ UNCHANGED <<cfg, gather, otm, plan, ret>>

\* for work in all_send_reqs: work.wait()  -- a send completes when it is received
send_wait(s) ==
    /\ Op(s) = "send_wait"
    /\ \A p \in Pairs : p[1] = s => chan[p] = <<>>
    /\ pc' = [pc EXCEPT ![s] = @ + 1]
    /\ obs' = [obs EXCEPT ![s] = Logged(@, "send_wait", 0)]
    /\ UNCHANGED <<cfg, stage, chan, pend, gather, otm, plan, ret>>

RECURSIVE reduce_add(_, _)
\* functools.reduce(lambda a, b: {k: torch.add(a[k], b[k]) for k in a}, chunks),
\* over the chunks 0..n
reduce_add(chunks, n) ==
    IF n = 0 THEN chunks[0]
    ELSE LET a == reduce_add(chunks, n - 1)
         IN [g \in DOMAIN a |-> a[g] (+) chunks[n][g]]

\* reduce over a list of one element returns that element, not a copy: the
\* reduced dict is then the chunk dict itself and chunk.clear() empties it
reduced_then_cleared(chunks) ==
    IF Cardinality(DOMAIN chunks) = 1
    THEN EmptyDict
    ELSE reduce_add(chunks, Cardinality(DOMAIN chunks) - 1)

\* the parameter whose .grad a reduced output gradient is written to
param_node_name(s, grad_name) ==
    get(input_params_map(s), inv_get(output_grads_map(s), grad_name))

\* variant: output_grads_reduced is not cleared at the end
merge_and_assign_without_clear(st, s) ==
    LET st1 == IF ~cfg.accumulate_grads_inplace
               THEN [st EXCEPT
                       !.step_grads_reduced = reduced_then_cleared(st.saved_grads_step_chunks),
                       !.saved_grads_step_chunks = [k \in DOMAIN @ |-> EmptyDict],
                       !.output_grads_reduced = reduced_then_cleared(st.output_grads_chunks),
                       !.output_grads_chunks = [k \in DOMAIN @ |-> EmptyDict]]
               ELSE st
    IN IF ~cfg.has_step
       THEN [st1 EXCEPT !.param_grad =
                DictUpdate(@, [p \in {param_node_name(s, g) : g \in DOMAIN st1.output_grads_reduced}
                                |-> st1.output_grads_reduced[
                                       CHOOSE g \in DOMAIN st1.output_grads_reduced :
                                           param_node_name(s, g) = p]])]
       ELSE st1

\* variant: the reduced output gradients are written to the parameters
\* whether or not the stage has a step callable
merge_and_assign_assigns_always(st, s) ==
    LET st1 == IF ~cfg.accumulate_grads_inplace
               THEN [st EXCEPT
                       !.step_grads_reduced = reduced_then_cleared(st.saved_grads_step_chunks),
                       !.saved_grads_step_chunks = [k \in DOMAIN @ |-> EmptyDict],
                       !.output_grads_reduced = reduced_then_cleared(st.output_grads_chunks),
                       !.output_grads_chunks = [k \in DOMAIN @ |-> EmptyDict]]
               ELSE st
        st2 == [st1 EXCEPT !.param_grad =
                   DictUpdate(@, [p \in {param_node_name(s, g) : g \in DOMAIN st1.output_grads_reduced}
                                   |-> st1.output_grads_reduced[
                                          CHOOSE g \in DOMAIN st1.output_grads_reduced :
                                              param_node_name(s, g) = p]])]
    IN [st2 EXCEPT !.output_grads_reduced = EmptyDict]

\* merge_and_assign_chunked_grads: the stage's fields afterwards
merge_and_assign(st, s) ==
    LET st1 == IF ~cfg.accumulate_grads_inplace
               THEN [st EXCEPT
                       !.step_grads_reduced = reduced_then_cleared(st.saved_grads_step_chunks),
                       !.saved_grads_step_chunks = [k \in DOMAIN @ |-> EmptyDict],
                       !.output_grads_reduced = reduced_then_cleared(st.output_grads_chunks),
                       !.output_grads_chunks = [k \in DOMAIN @ |-> EmptyDict]]
               ELSE st
        st2 == IF ~cfg.has_step
               THEN [st1 EXCEPT !.param_grad =
                        DictUpdate(@, [p \in {param_node_name(s, g) : g \in DOMAIN st1.output_grads_reduced}
                                        |-> st1.output_grads_reduced[
                                               CHOOSE g \in DOMAIN st1.output_grads_reduced :
                                                   param_node_name(s, g) = p]])]
               ELSE st1
    IN [st2 EXCEPT !.output_grads_reduced = EmptyDict]

merge_and_assign_chunked_grads(s) ==
    /\ Op(s) = "merge_grads"
    /\ stage' = [stage EXCEPT ![s] = merge_and_assign(stage[s], s)]
    /\ pc' = [pc EXCEPT ![s] = @ + 1]
    /\ obs' = [obs EXCEPT ![s] = Logged(@, "merge_grads", 0)]
    /\ UNCHANGED <<cfg, chan, pend, gather, otm, plan, ret>>

\* step
step(s) ==
    /\ Op(s) = "step"
    /\ obs' = [obs EXCEPT ![s] = Logged([@ EXCEPT !.stepped = stage[s].step_grads_reduced],
                                        "step", 0)]
    /\ stage' = [stage EXCEPT ![s].step_grads_reduced = CompiledStep(@)]
    /\ pc' = [pc EXCEPT ![s] = @ + 1]
    /\ UNCHANGED <<cfg, chan, pend, gather, otm, plan, ret>>

\* merge_chunked_returns, up to the all_gather_object: the merged local returns
local_returns(returns_chunks) ==
    merge_chunks([k \in DOMAIN returns_chunks |->
        [n \in return_nodes_flatten |->
            IF n \in DOMAIN returns_chunks[k] THEN returns_chunks[k][n] ELSE None]])

\* variant: the chunks of returns are not cleared after the merge
merge_chunked_returns_without_clear(s) ==
    /\ Op(s) = "merge_returns"
    /\ gather' = [gather EXCEPT ![s] = local_returns(stage[s].returns_chunks)]
    /\ pc' = [pc EXCEPT ![s] = @ + 1]
    /\ UNCHANGED <<cfg, stage, chan, pend, obs, otm, plan, ret>>

merge_chunked_returns(s) ==
    /\ Op(s) = "merge_returns"
    /\ gather' = [gather EXCEPT ![s] = local_returns(stage[s].returns_chunks)]
    /\ stage' = [stage EXCEPT ![s].returns_chunks = [k \in DOMAIN @ |-> EmptyDict]]
    /\ pc' = [pc EXCEPT ![s] = @ + 1]
    /\ UNCHANGED <<cfg, chan, pend, obs, otm, plan, ret>>

RECURSIVE returns_dict_keeps_first(_, _)
\* variant: a name already written is not written again
returns_dict_keeps_first(returns_all_gather, n) ==
    IF n = 0 THEN EmptyDict
    ELSE LET d == returns_dict_keeps_first(returns_all_gather, n - 1)
             r == returns_all_gather[n - 1]
         IN DictUpdate([k \in {k \in DOMAIN r : r[k] # None} |-> r[k]], d)

RECURSIVE returns_dict(_, _)
\* the loop over returns_all_gather[0..n-1]: every non-None value is written
\* under its name
returns_dict(returns_all_gather, n) ==
    IF n = 0 THEN EmptyDict
    ELSE LET d == returns_dict(returns_all_gather, n - 1)
             r == returns_all_gather[n - 1]
         IN DictUpdate(d, [k \in {k \in DOMAIN r : r[k] # None} |-> r[k]])

\* merge_chunked_returns, after the all_gather_object
return_tensors(returns_all_gather, n, names) ==
    LET d == returns_dict(returns_all_gather, n)
    IN IF names \subseteq DOMAIN d THEN [k \in names |-> d[k]] ELSE <<"KeyError">>

\* dist.all_gather_object: no stage leaves it before every stage has entered it
all_gather_object ==
    /\ \A s \in Stages : Op(s) = "all_gather"
    /\ obs' = [s \in Stages |->
                 [obs[s] EXCEPT !.result = return_tensors(gather, cfg.N, return_nodes_flatten),
                                !.done = @ + 1]]
    /\ gather' = [s \in Stages |-> None]
    /\ pc' = [s \in Stages |-> 0]
    /\ UNCHANGED <<cfg, stage, chan, pend, otm, plan, ret>>

\* a primitive raises (a callable fails, the transport fails): the call ends
\* where it is, with whatever the buffers hold.  At most one in a run.
Fail(s) ==
    /\ pc[s] \in 1..Len(stage[s].schedule)
    /\ \A r \in Stages : ~obs[r].failed
    /\ pc' = [pc EXCEPT ![s] = 0]
    /\ obs' = [obs EXCEPT ![s].err = "Exception", ![s].failed = TRUE]
    /\ UNCHANGED <<cfg, stage, chan, pend, gather, otm, plan, ret>>

-----------------------------------------------------------------------------
(* The pipeline: every stage constructed with the same schedule, driven    *)
(* for one training step.                                                  *)

Init ==
    /\ \E c \in Configs(MaxStages, MaxChunks, 1) : PipeInit(c)
    /\ otm = NoTest /\ plan = NoTest /\ ret = NoTest

StageNext(s) ==
    \/ Call(s)
    \/ forward_recv_one_chunk(s)
    \/ forward_compute_one_chunk(s)
    \/ forward_send_one_chunk(s)
    \/ backward_recv_one_chunk(s)
    \/ backward_compute_one_chunk(s)
    \/ backward_send_one_chunk(s)
    \/ recv_wait(s)
    \/ send_wait(s)
    \/ merge_and_assign_chunked_grads(s)
    \/ step(s)
    \/ merge_chunked_returns(s)

Next ==
    \/ \E s \in Stages : StageNext(s)
    \/ all_gather_object

Spec == Init /\ [][Next]_vars

\* the call of a stage has returned
Finished(s) == pc[s] = 0 /\ obs[s].done = cfg.steps

\* the stage cannot take its next step: it waits for a message that has not
\* arrived, for a send that has not been received, for the other stages to
\* enter the all_gather, or its call has ended without returning
Blocked(s) ==
    \/ Op(s) = "fw_wait" /\ PendingRecvs(s, "fw") # {}
    \/ Op(s) = "bw_wait" /\ PendingRecvs(s, "bw") # {}
    \/ Op(s) = "send_wait" /\ \E p \in Pairs : p[1] = s /\ chan[p] # <<>>
    \/ Op(s) = "all_gather" /\ \E r \in Stages : Op(r) # "all_gather"
    \/ pc[s] = 0 /\ obs[s].calls >= cfg.steps

\* how far a stage is through the calls it is driven for
Position(s) == obs[s].done * (Len(stage[s].schedule) + 1) + pc[s]

\* C1: when every stage runs the same schedule for one step, no reachable
\* state with an unfinished stage has every unfinished stage blocked on a
\* receive or a wait, and every step moves some stage forward in its finite
\* schedule and none backward: so every stage finishes its schedule.
C1_EveryStageFinishes ==
    /\ []((\E s \in Stages : ~Finished(s)) =>
            (\E s \in Stages : ~Finished(s) /\ ~Blocked(s)))
    /\ [][/\ \A s \in Stages : Position(s)' >= Position(s)
          /\ \E s \in Stages : Position(s)' > Position(s)]_vars

\* a 1F1B run with a steady state on several stages has finished
C1_Witness ==
    /\ cfg.schedule = "DAPPLE" /\ cfg.N >= 2 /\ cfg.C > cfg.N
    /\ \A s \in Stages : Finished(s)

\* the placeholders of a plan that are received from another stage
Received(recv_info) == {ph \in Placeholders(recv_info) : ph.kind = "RecevPlaceholder"}

\* the value stage src produced for name n in its compute of chunk k of step t
ProducedBy(dir, src, n, t, k) == {<<dir, src, n, t, k, g>> : g \in BOOLEAN}

\* C2: the value a stage's forward (backward) compute for chunk k consumes
\* for a received placeholder is the value the sending stage produced in its
\* forward (backward) compute for the same chunk k.
C2_ChunkKConsumesChunkK ==
    \A s \in Stages : \A k \in Chunks :
        /\ DOMAIN obs[s].consumed_fw[k] # {} =>
              \A ph \in Received(stage[s].fw_kwargs_recv_info) :
                  obs[s].consumed_fw[k][ph.input_name]
                      \in ProducedBy("fw", ph.source, ph.input_name, obs[s].calls - 1, k)
        /\ DOMAIN obs[s].consumed_bw[k] # {} =>
              \A ph \in Received(stage[s].bw_kwargs_recv_info) :
                  obs[s].consumed_bw[k][ph.input_name]
                      \in ProducedBy("bw", ph.source, ph.input_name, obs[s].calls - 1, k)

\* a 1F1B stage has consumed, in its steady state, a forward chunk received
\* with a deferred wait and the last backward chunk
C2_Witness ==
    \E s \in Stages :
        /\ cfg.schedule = "DAPPLE" /\ s >= 1
        /\ cfg.C > num_warmup(cfg.N, s, cfg.C)
        /\ DOMAIN obs[s].consumed_fw[cfg.C - 1] # {}
        /\ s < cfg.N - 1 /\ DOMAIN obs[s].consumed_bw[cfg.C - 1] # {}

\* The sequential reference: a stage's computes of step 0 taken alone, chunk
\* by chunk, each given the values of a correct run.
RefStart(s) ==
    [reset_runtime_states(PipelineStage(cfg, s)) EXCEPT !.kwargs_chunks = split_input_kwargs(0)]

RefDelivered(buffer, expected) == [n \in DOMAIN buffer |-> expected[n]]

RECURSIVE RefForward(_, _, _)
RefForward(st, s, n) ==
    IF n = 0 THEN st
    ELSE LET p == RefForward(st, s, n - 1)
         IN forward_compute(
                [p EXCEPT !.fw_buffer = RefDelivered(@, ExpectedFwKwargs(s, 0, n - 1))], s, 0)

RECURSIVE RefBackward(_, _, _)
RefBackward(st, s, n) ==
    IF n = 0 THEN st
    ELSE LET p == RefBackward(st, s, n - 1)
         IN backward_compute(
                [p EXCEPT !.bw_buffer = RefDelivered(@, ExpectedBwKwargs(s, 0, n - 1))], s, 0)

Reference(s) ==
    LET f == RefForward(RefStart(s), s, cfg.C)
        b == IF cfg.has_bw THEN RefBackward(f, s, cfg.C) ELSE f
        m == merge_and_assign(b, s)
    IN [returns |-> local_returns(f.returns_chunks),
        stepped |-> IF cfg.has_step THEN m.step_grads_reduced ELSE None,
        param_grad |-> m.param_grad]

RefResult ==
    return_tensors([s \in Stages |-> Reference(s).returns], cfg.N, return_nodes_flatten)

\* C4: under GPipe and under 1F1B alike, every per-chunk compute is given the
\* inputs of the sequential reference, and every stage ends with the
\* reference's merged results and reduced gradients; the reference does not
\* depend on the schedule, so the two schedules agree.
C4_SchedulesAgree ==
    \A s \in Stages :
        Finished(s) =>
            /\ obs[s].consumed_fw = [k \in Chunks |-> ExpectedFwKwargs(s, 0, k)]
            /\ cfg.has_bw => obs[s].consumed_bw = [k \in Chunks |-> ExpectedBwKwargs(s, 0, k)]
            /\ obs[s].result = RefResult
            /\ obs[s].stepped = Reference(s).stepped
            /\ stage[s].param_grad = Reference(s).param_grad

\* a 1F1B run with warm-up, steady state and cool-down has returned its
\* results and every stage holds gradients
C4_Witness ==
    /\ cfg.schedule = "DAPPLE" /\ cfg.N >= 2 /\ cfg.C > cfg.N
    /\ \A s \in Stages :
          /\ Finished(s) /\ obs[s].result # None
          /\ (DOMAIN stage[s].param_grad # {} \/ obs[s].stepped \notin {None, EmptyDict})

\* the sum of the per-chunk gradients of a stage's parameter in step 0
SumOfChunkGrads(s) == SetToBag({<<"grad", s, 0, k, TRUE>> : k \in Chunks})

\* C5: for every C >= 1, with accumulate-in-place enabled or disabled, the
\* reduced gradients handed to step and the reduced output gradients
\* assigned to the parameters map each name to the sum of its C per-chunk
\* gradients.
C5_ReducedIsSumOfChunks ==
    \A s \in Stages :
        /\ (cfg.has_step /\ obs[s].stepped # None) =>
              obs[s].stepped = (ParamGradName(s) :> SumOfChunkGrads(s))
        /\ (cfg.has_bw /\ ~cfg.has_step /\ Finished(s)) =>
              stage[s].param_grad = (ParamNodeName(s) :> SumOfChunkGrads(s))

\* the compute calls of a trace
Computes(trace) == SelectSeq(trace, LAMBDA e : e[1] \in {"fw_comp", "bw_comp"})

\* k compute calls of one direction on chunks first, first + 1, ...
Run(primitive, first, k) == [i \in 1..k |-> <<primitive, first + i - 1>>]

\* k backward/forward pairs: backward on chunks 0.., forward on chunks first..
RECURSIVE Pairs1F1B(_, _)
Pairs1F1B(first, k) ==
    IF k = 0 THEN <<>>
    ELSE Pairs1F1B(first, k - 1) \o <<<<"bw_comp", k - 1>>, <<"fw_comp", first + k - 1>>>>

IsPrefix(a, b) == Len(a) <= Len(b) /\ a = SubSeq(b, 1, Len(a))

\* C14: on every stage, one run of the 1F1B schedule issues its compute
\* calls as num_warmup forwards (chunks 0..), then C - num_warmup
\* backward/forward pairs, then the remaining num_warmup backwards: C
\* forward and C backward calls, each direction on chunks 0..C-1 once each in
\* increasing order.
C14_PhaseCounts ==
    cfg.schedule = "DAPPLE" =>
        \A s \in Stages :
            LET W == num_warmup(cfg.N, s, cfg.C)
                expected == Run("fw_comp", 0, W) \o Pairs1F1B(W, cfg.C - W)
                            \o Run("bw_comp", cfg.C - W, W)
                issued == Computes(obs[s].trace)
            IN /\ IsPrefix(issued, expected)
               /\ Finished(s) =>
                     /\ issued = expected
                     /\ SelectSeq(issued, LAMBDA e : e[1] = "fw_comp") = Run("fw_comp", 0, cfg.C)
                     /\ SelectSeq(issued, LAMBDA e : e[1] = "bw_comp") = Run("bw_comp", 0, cfg.C)

\* a 1F1B run in which some stage went through a warm-up of several chunks,
\* a steady state and a cool-down has finished
C14_Witness ==
    /\ cfg.schedule = "DAPPLE"
    /\ \A s \in Stages : Finished(s)
    /\ \E s \in Stages :
          /\ num_warmup(cfg.N, s, cfg.C) \in 2..(cfg.C - 1)
          /\ Len(Computes(obs[s].trace)) = 2 * cfg.C

\* where an event is in a trace; 0 when it is not there
Pos(trace, e) ==
    IF \E i \in 1..Len(trace) : trace[i] = e
    THEN CHOOSE i \in 1..Len(trace) : trace[i] = e
    ELSE 0

\* if b is in the trace then a is, once, and earlier
Before(trace, a, b) ==
    Pos(trace, b) # 0 =>
        /\ Pos(trace, a) # 0 /\ Pos(trace, a) < Pos(trace, b)
        /\ Cardinality({i \in 1..Len(trace) : trace[i] = a}) = 1

\* what the order of C15 requires to have been run before a primitive is
Required(e) ==
    CASE e[1] = "fw_wait" -> {<<"fw_recv", e[2]>>}
      [] e[1] = "fw_comp" -> {<<"fw_wait", e[2]>>}
      [] e[1] = "fw_send" -> {<<"fw_comp", e[2]>>}
      [] e[1] = "bw_recv" -> {"fw_comp", "fw_send"} \X Chunks
      [] e[1] = "bw_wait" -> {<<"bw_recv", e[2]>>}
      [] e[1] = "bw_comp" -> {<<"bw_wait", e[2]>>}
      [] e[1] = "bw_send" -> {<<"bw_comp", e[2]>>}
      [] e[1] = "send_wait" -> {"bw_send"} \X Chunks
      [] OTHER -> {}

\* C15: in a GPipe run on a stage with a backward callable, each chunk's
\* forward is receive, compute, send; every forward compute and forward send
\* is issued before any backward receive; each chunk's backward is receive,
\* compute, send; and the send handles are waited for only after the last
\* backward send.  Stated of the primitive a stage ran last, in every
\* reachable state: a trace only grows, so it holds of every primitive of
\* every run.
C15_GPipeOrder ==
    (cfg.schedule = "GPipe" /\ cfg.has_bw) =>
        \A s \in Stages :
            LET tr == obs[s].trace
                n == Len(tr)
            IN /\ n > 0 =>
                     /\ \A a \in Required(tr[n]) : \E i \in 1..(n - 1) : tr[i] = a
                     /\ \A i \in 1..(n - 1) : tr[i] # tr[n]
               /\ Finished(s) => \E i \in 1..n : tr[i] = <<"send_wait", 0>>

\* a GPipe run with a backward pass of several chunks on several stages has
\* finished
C15_Witness ==
    /\ cfg.schedule = "GPipe" /\ cfg.has_bw /\ cfg.N >= 2 /\ cfg.C >= 2
    /\ \A s \in Stages : Finished(s) /\ Pos(obs[s].trace, <<"bw_send", cfg.C - 1>>) # 0

\* the primitives of the steady-state iteration whose backward is on chunk k
\* of a stage whose warm-up ran W forwards
Iteration(k, W) ==
    <<<<"bw_recv", k>>, <<"bw_wait", k>>, <<"fw_recv", W + k>>, <<"bw_comp", k>>,
      <<"bw_send", k>>, <<"fw_wait", W + k>>, <<"fw_comp", W + k>>, <<"fw_send", W + k>>>>

\* C16: every 1F1B steady-state iteration runs, in this order and with
\* nothing in between: backward receive and its wait, forward receive
\* without a wait, backward compute, backward send, the wait for the forward
\* receive, forward compute of the next forward chunk, forward send.
C16_SteadyStateOrder ==
    cfg.schedule = "DAPPLE" =>
        \A s \in Stages :
            LET W == num_warmup(cfg.N, s, cfg.C)
                tr == obs[s].trace
            IN \A k \in 0..(cfg.C - W - 1) :
                  /\ \A i \in 1..Len(tr) :
                        tr[i] = <<"bw_recv", k>> =>
                            \A j \in 1..8 :
                                i + j - 1 <= Len(tr) => tr[i + j - 1] = Iteration(k, W)[j]
                  /\ Before(tr, <<"bw_send", k>>, <<"fw_wait", W + k>>)
                  /\ Before(tr, <<"fw_wait", W + k>>, <<"fw_comp", W + k>>)
                  /\ Finished(s) => Pos(tr, <<"fw_send", W + k>>) # 0

\* a middle stage of a 1F1B run has finished after a steady-state
\* iteration, whose forward receive it waited for after its backward send
C16_Witness ==
    \E s \in Stages :
        /\ cfg.schedule = "DAPPLE" /\ 0 < s /\ s < cfg.N - 1 /\ Finished(s)
        /\ cfg.C - num_warmup(cfg.N, s, cfg.C) >= 1
        /\ Pos(obs[s].trace, <<"fw_wait", cfg.C - 1>>) > Pos(obs[s].trace, <<"bw_send", 0>>)

\* plain backward receive, compute, send for k chunks from chunk first on
Backwards(first, k) ==
    [i \in 1..(4 * k) |->
        <<<<"bw_recv", "bw_wait", "bw_comp", "bw_send">>[((i - 1) % 4) + 1],
          first + ((i - 1) \div 4)>>]

\* the cool-down of a trace whose last primitive is the wait for the sends:
\* what was run after the last forward send
CoolDown(trace) ==
    SubSeq(trace, Pos(trace, <<"fw_send", cfg.C - 1>>) + 1, Len(trace) - 1)

\* the stage has just run the wait for its sends
AtSendWait(s) ==
    Len(obs[s].trace) > 0 /\ obs[s].trace[Len(obs[s].trace)] = <<"send_wait", 0>>

\* C21 as stated: the 1F1B cool-down is plain backward receive, compute,
\* send for exactly num_chunks - num_warmup chunks, the last ones.
C21_CoolDownOfSteadyCount ==
    cfg.schedule = "DAPPLE" =>
        \A s \in Stages :
            LET W == num_warmup(cfg.N, s, cfg.C)
            IN AtSendWait(s) => CoolDown(obs[s].trace) = Backwards(W, cfg.C - W)

\* C21 amended: the 1F1B cool-down is plain backward receive, compute, send
\* for exactly num_warmup chunks, the last ones (C - num_warmup .. C - 1),
\* with no forward operation.
C21_CoolDownOfWarmupCount ==
    cfg.schedule = "DAPPLE" =>
        \A s \in Stages :
            LET W == num_warmup(cfg.N, s, cfg.C)
            IN /\ AtSendWait(s) => CoolDown(obs[s].trace) = Backwards(cfg.C - W, W)
               /\ Finished(s) => Pos(obs[s].trace, <<"send_wait", 0>>) # 0

\* a 1F1B stage with a steady state has run a cool-down of more chunks than
\* its steady state had iterations
C21_Witness ==
    \E s \in Stages :
        /\ cfg.schedule = "DAPPLE" /\ AtSendWait(s)
        /\ num_warmup(cfg.N, s, cfg.C) < cfg.C
        /\ num_warmup(cfg.N, s, cfg.C) > cfg.C - num_warmup(cfg.N, s, cfg.C)
        /\ Pos(obs[s].trace, <<"bw_send", cfg.C - 1>>) # 0

\* how often a primitive is in a trace
Count(trace, primitive) == Cardinality({i \in 1..Len(trace) : trace[i][1] = primitive})

\* C22: under either schedule, merge_and_assign_chunked_grads runs right
\* after the wait for the send handles, when every send of the run has
\* been posted and has completed; step runs only right after the merge
\* and only on a stage with a step callable; a finished run has merged once
\* and has stepped once if the stage has a step callable, never otherwise.
C22_WaitThenMergeThenStep ==
    \A s \in Stages :
        LET tr == obs[s].trace
            n == Len(tr)
        IN /\ (n > 0 /\ tr[n][1] = "merge_grads") =>
                 /\ n > 1 /\ tr[n - 1][1] = "send_wait"
                 /\ Count(tr, "fw_send") = cfg.C
                 /\ Count(tr, "bw_send") = (IF cfg.has_bw THEN cfg.C ELSE 0)
                 /\ \A p \in Pairs : p[1] = s => chan[p] = <<>>
           /\ (n > 0 /\ tr[n][1] = "step") =>
                 /\ cfg.has_step
                 /\ n > 1 /\ tr[n - 1][1] = "merge_grads"
           /\ Finished(s) =>
                 /\ Count(tr, "merge_grads") = 1
                 /\ Count(tr, "send_wait") = 1
                 /\ Count(tr, "step") = (IF cfg.has_step THEN 1 ELSE 0)

\* a stage that sends in both directions has merged its gradients and has
\* stepped
C22_Witness ==
    \E s \in Stages :
        /\ cfg.has_step /\ 0 < s /\ s < cfg.N - 1 /\ cfg.C >= 2
        /\ Finished(s) /\ Count(obs[s].trace, "step") = 1

\* the primitives of a trace, without the chunks
Primitives(trace) == [i \in 1..Len(trace) |-> trace[i][1]]

\* C23: on a 1F1B stage whose num_warmup is num_chunks the primitives run
\* are, at every point of the run, the first primitives GPipe issues for the
\* stage, and all of them when the run has finished.
C23_DegeneratesToGPipe ==
    cfg.schedule = "DAPPLE" =>
        \A s \in Stages :
            num_warmup(cfg.N, s, cfg.C) = cfg.C =>
                LET issued == Primitives(obs[s].trace)
                    gpipe == ScheduleGPipe(cfg.C, cfg.has_bw, cfg.has_step)
                IN /\ IsPrefix(issued, gpipe)
                   /\ Finished(s) => issued = gpipe

\* 1F1B stages without a steady state, of several chunks, have finished
\* next to a stage with one
C23_Witness ==
    /\ cfg.schedule = "DAPPLE" /\ cfg.C >= 2
    /\ \E s \in Stages : num_warmup(cfg.N, s, cfg.C) = cfg.C /\ Finished(s)
                         /\ Len(obs[s].trace) > 8
    /\ \E s \in Stages : num_warmup(cfg.N, s, cfg.C) < cfg.C /\ Finished(s)

\* C24: as long as the tensors a forward compute saved for chunk k are
\* held, they hold what that compute consumed, whatever has been written
\* into the receive buffers since.
C24_CloneOnRead ==
    \A s \in Stages : \A k \in Chunks :
        (DOMAIN obs[s].consumed_fw[k] # {} /\ DOMAIN stage[s].saved_tensors_bw_chunks[k] # {}) =>
            Contents(stage[s].saved_tensors_bw_chunks[k], stage[s].fw_buffer)
                = obs[s].consumed_fw[k]

\* a 1F1B stage holds the tensors saved for a chunk whose backward has not
\* run while the receive buffer they were read from holds a later chunk
C24_Witness ==
    \E s \in Stages : \E k \in Chunks :
        /\ cfg.schedule = "DAPPLE"
        /\ DOMAIN stage[s].saved_tensors_bw_chunks[k] # {}
        /\ \E ph \in Received(stage[s].fw_kwargs_recv_info) :
              /\ stage[s].fw_buffer[ph.input_name] # obs[s].consumed_fw[k][ph.input_name]
              /\ stage[s].fw_buffer[ph.input_name] \in
                     ProducedBy("fw", ph.source, ph.input_name, 0, k + 1)

\* the stage has just returned from merge_and_assign_chunked_grads
AtMerge(s) ==
    Len(obs[s].trace) > 0 /\ obs[s].trace[Len(obs[s].trace)] = <<"merge_grads", 0>>

C27_BackwardAfterForward ==
    \A s \in Stages :
        /\ stage[s].cur_fw_chunk_id \in 0..cfg.C
        /\ stage[s].cur_bw_chunk_id \in 0..cfg.C
        /\ stage[s].cur_bw_chunk_id <= stage[s].cur_fw_chunk_id
        /\ Op(s) = "bw_comp" =>
              /\ stage[s].cur_bw_chunk_id < stage[s].cur_fw_chunk_id
              /\ DOMAIN obs[s].consumed_fw[stage[s].cur_bw_chunk_id] # {}

\* a 1F1B stage is about to run the backward compute of a chunk in its
\* steady state, one chunk behind its forward cursor
C27_Witness ==
    \E s \in Stages :
        /\ cfg.schedule = "DAPPLE" /\ Op(s) = "bw_comp"
        /\ stage[s].cur_bw_chunk_id >= 1
        /\ stage[s].cur_fw_chunk_id = stage[s].cur_bw_chunk_id + 1
        /\ stage[s].cur_fw_chunk_id < cfg.C

\* the chunks whose forward has been computed and whose backward has not
InFlight(s) == stage[s].cur_fw_chunk_id - stage[s].cur_bw_chunk_id

\* C28: at every point of a 1F1B run a stage has at most num_warmup chunks
\* whose forward has been computed and whose backward has not; under GPipe
\* the number is bounded by C only (and reaches it: C28_Witness).
C28_InFlightBound ==
    \A s \in Stages :
        IF cfg.schedule = "DAPPLE"
        THEN InFlight(s) <= num_warmup(cfg.N, s, cfg.C)
        ELSE InFlight(s) <= cfg.C

\* a GPipe stage with a backward holds C chunks in flight, more than the
\* num_warmup of the stage
C28_Witness ==
    \E s \in Stages :
        /\ cfg.schedule = "GPipe" /\ cfg.has_bw
        /\ InFlight(s) = cfg.C
        /\ cfg.C > num_warmup(cfg.N, s, cfg.C)

\* the tensors stage i sends stage j in one send of a direction
SentPerChunk(i, j, send_info) ==
    IF j \in DictKeys(send_info) THEN Len(DictGet(send_info, j)) ELSE 0

\* the tensors stage j receives from stage i in one receive of a direction
ReceivedPerChunk(j, i, recv_info) ==
    Cardinality({ph \in Received(recv_info) : ph.source = i})

\* C29: when every stage has finished the step, for every ordered pair of
\* stages and each direction the sends the sender posted are as many as the
\* receives the receiver posted, no batch is in flight and no receive is
\* left posted.
C29_NothingInFlight ==
    (\A s \in Stages : Finished(s)) =>
        \A i \in Stages : \A j \in Stages :
            /\ chan[<<i, j>>] = <<>>
            /\ pend[<<i, j>>] = <<>>
            /\ Count(obs[i].trace, "fw_send") * SentPerChunk(i, j, stage[i].fw_act_send_info)
                  = Count(obs[j].trace, "fw_recv")
                      * ReceivedPerChunk(j, i, stage[j].fw_kwargs_recv_info)
            /\ Count(obs[i].trace, "bw_send") * SentPerChunk(i, j, stage[i].bw_grad_send_info)
                  = Count(obs[j].trace, "bw_recv")
                      * ReceivedPerChunk(j, i, stage[j].bw_kwargs_recv_info)

\* a 1F1B step of several chunks on stages that exchange values in both
\* directions has finished
C29_Witness ==
    /\ cfg.schedule = "DAPPLE" /\ cfg.N >= 3 /\ cfg.C >= 2
    /\ \A s \in Stages : Finished(s)
    /\ Count(obs[1].trace, "bw_send") * SentPerChunk(1, 0, stage[1].bw_grad_send_info) >= 2

-----------------------------------------------------------------------------
(* The pipeline driven for several training steps, in which a primitive    *)
(* may raise.                                                              *)

InitSteps ==
    /\ \E c \in Configs(MaxStages - 1, MaxChunks - 1, MaxSteps) : PipeInit(c)
    /\ otm = NoTest /\ plan = NoTest /\ ret = NoTest

NextSteps ==
    \/ \E s \in Stages : StageNext(s)
    \/ all_gather_object
    \/ \E s \in Stages : Fail(s)

SpecSteps == InitSteps /\ [][NextSteps]_vars

\* the stage is between calls and its last call, if any, returned normally
Completed(s) == pc[s] = 0 /\ obs[s].err = "none"

\* some chunk of a list of per-chunk dicts holds an entry
SomeChunkHolds(chunks) == \E k \in DOMAIN chunks : chunks[k] # EmptyDict

BuffersHeld(st) ==
    \/ SomeChunkHolds(st.returns_chunks)
    \/ SomeChunkHolds(st.saved_tensors_bw_chunks)
    \/ SomeChunkHolds(st.saved_grads_step_chunks)
    \/ SomeChunkHolds(st.output_grads_chunks)
    \/ /\ cfg.accumulate_grads_inplace
       /\ (st.output_grads_reduced # EmptyDict \/ st.step_grads_reduced # EmptyDict)

\* C7: a call of a stage that holds a non-empty chunk entry (or, with
\* accumulate-in-place, a non-empty reduced accumulator) raises an
\* AssertionError and ends before anything is received, computed or sent;
\* any other call starts the schedule with both cursors at 0 and the kwargs
\* chunks equal to the new step's split inputs.
C7_AssertionBeforeNewStep ==
    [][\A s \in Stages :
          obs'[s].calls = obs[s].calls + 1 =>
              IF BuffersHeld(stage[s])
              THEN /\ obs'[s].err = "AssertionError"
                   /\ pc'[s] = 0
                   /\ chan' = chan /\ pend' = pend
                   /\ obs'[s].consumed_fw = EmptyChunks(cfg)
              ELSE /\ obs'[s].err = "none"
                   /\ pc'[s] = 1
                   /\ stage'[s].cur_fw_chunk_id = 0
                   /\ stage'[s].cur_bw_chunk_id = 0
                   /\ stage'[s].kwargs_chunks = split_input_kwargs(obs[s].calls)]_vars

\* a call was refused by the assertion after a primitive of the previous
\* call raised and left a buffer populated
C7_Witness ==
    \E s \in Stages :
        /\ obs[s].err = "AssertionError" /\ pc[s] = 0
        /\ BuffersHeld(stage[s])

-----------------------------------------------------------------------------
(* The communication plans of every stage, built from dependency metadata  *)
(* drawn from a bounded set: at most MaxEdges dependencies <<producer,     *)
(* name, consumer>> between distinct stages, or from a raw step argument   *)
(* (producer -1) to a stage.                                               *)

PipeOff ==
    /\ cfg = NoTest /\ stage = NoTest /\ pc = NoTest /\ chan = NoTest
    /\ pend = NoTest /\ gather = NoTest /\ obs = NoTest

Dependencies(N) ==
    {<<i, n, j>> : i \in 0..(N - 1), n \in {ActName(0), Act2Name(0)}, j \in 0..(N - 1)}
    \cup {<<-1, X, j>> : j \in 0..(N - 1)}

Metadata(N, max_edges) ==
    {E \in SUBSET {e \in Dependencies(N) : e[1] # e[3]} : Cardinality(E) <= max_edges}

InitPlan ==
    /\ PipeOff /\ otm = NoTest /\ ret = NoTest
    /\ \E is_forward \in BOOLEAN : \E E \in Metadata(MaxStages, MaxEdges) :
          plan = [N |-> MaxStages, is_forward |-> is_forward, edges |-> E,
                  built |-> FALSE, raised |-> FALSE,
                  send_info |-> NoTest, recv_info |-> NoTest,
                  send_ops |-> NoTest, recv_ops |-> NoTest]

\* the peer of each batch of a list of batches, in the order they are posted
Peers(ops) == [i \in 1..Len(ops) |-> ops[i][1]]

\* _init_communication on every stage, for one direction, and the batches
\* its send and its receive of one chunk post
BuildPlans ==
    /\ ~plan.built
    /\ plan' = [plan EXCEPT
          !.built = TRUE,
          !.raised = \E s \in 0..(plan.N - 1) :
                        _create_recv_info_raises(NodeKwargs(plan.edges, {}, s), plan.is_forward),
          !.send_info = [s \in 0..(plan.N - 1) |->
                            _create_send_info(NodeUsers(plan.edges, s), plan.is_forward)],
          !.recv_info = [s \in 0..(plan.N - 1) |->
                            _create_recv_info(NodeKwargs(plan.edges, {}, s), plan.is_forward)],
          !.send_ops = [s \in 0..(plan.N - 1) |->
                           Peers(_create_send_ops(
                               _create_send_info(NodeUsers(plan.edges, s), plan.is_forward),
                               [n \in {e[2] : e \in plan.edges} |-> n]))],
          !.recv_ops = [s \in 0..(plan.N - 1) |->
                           Peers(_create_recv_ops(
                               _create_recv_info(NodeKwargs(plan.edges, {}, s),
                                                 plan.is_forward)))]]
    /\ UNCHANGED <<cfg, stage, pc, chan, pend, gather, obs, otm, ret>>

SpecPlan == InitPlan /\ [][BuildPlans]_vars

PlansBuilt == plan.built /\ ~plan.raised

\* the names stage i sends to stage j, in the order of send_info[j]
SentNames(i, j) ==
    IF j \in DictKeys(plan.send_info[i]) THEN DictGet(plan.send_info[i], j) ELSE <<>>

\* the names of the RecevPlaceholders of stage j's recv_info[i], in order
ReceivedNames(i, j) ==
    IF i \in DictKeys(plan.recv_info[j])
    THEN LET l == DictGet(plan.recv_info[j], i) IN RecvNames(l, Len(l))
    ELSE <<>>

\* C3: for either direction and every producer i and consumer j, the names
\* in stage i's send_info[j] are, in order, the names of the network-received
\* placeholders in stage j's recv_info[i].
C3_SendOrderIsRecvOrder ==
    PlansBuilt =>
        \A i \in 0..(plan.N - 1) : \A j \in 0..(plan.N - 1) :
            SentNames(i, j) = ReceivedNames(i, j)

\* backward plans in which a stage sends two values to one peer
C3_Witness ==
    /\ PlansBuilt /\ ~plan.is_forward
    /\ \E i \in 0..(plan.N - 1) : \E j \in 0..(plan.N - 1) : Len(SentNames(i, j)) >= 2

\* the names stage j posts a receive for
NamesReceived(j) ==
    LET ops == _create_recv_ops(plan.recv_info[j])
    IN UNION {{ops[i][2][m] : m \in 1..Len(ops[i][2])} : i \in 1..Len(ops)}

\* the placeholders in the list recv_info of stage j keeps for source src
ListOf(j, src) ==
    IF src \in DictKeys(plan.recv_info[j])
    THEN LET l == DictGet(plan.recv_info[j], src) IN {l[i] : i \in 1..Len(l)}
    ELSE {}

\* C26: building the backward receive plans raises exactly when some
\* backward segment takes a local input; building the forward ones never
\* raises, a local input of stage j is a StageKwargPlaceholder in the list
\* of source 0, next to the RecevPlaceholders of the values stage 0 sends,
\* and stage j posts a receive for the latter only.
C26_LocalInputs ==
    plan.built =>
        IF ~plan.is_forward
        THEN plan.raised <=> \E e \in plan.edges : e[1] = -1
        ELSE /\ ~plan.raised
             /\ \A j \in 0..(plan.N - 1) :
                   /\ \A e \in plan.edges :
                         /\ (e[3] = j /\ e[1] = -1) =>
                               /\ StageKwargPlaceholder(e[2]) \in ListOf(j, 0)
                               /\ e[2] \notin NamesReceived(j)
                         /\ (e[3] = j /\ e[1] = 0) =>
                               /\ RecevPlaceholder(e[2], 0) \in ListOf(j, 0)
                               /\ e[2] \in NamesReceived(j)
                   /\ NamesReceived(j) = {e[2] : e \in {d \in plan.edges : d[3] = j /\ d[1] # -1}}

\* forward plans in which a stage takes a local input and a value of stage 0
C26_Witness ==
    /\ plan.built /\ plan.is_forward
    /\ \E j \in 0..(plan.N - 1) :
          /\ \E ph \in ListOf(j, 0) : ph.kind = "StageKwargPlaceholder"
          /\ \E ph \in ListOf(j, 0) : ph.kind = "RecevPlaceholder"
          /\ NamesReceived(j) # {}

Ascending(peers) == \A i \in 1..(Len(peers) - 1) : peers[i] < peers[i + 1]
Descending(peers) == \A i \in 1..(Len(peers) - 1) : peers[i] > peers[i + 1]

\* C19 as stated: a stage posts the send batches and the receive batches of
\* a backward chunk in descending order of the peer stage, and those of a
\* forward chunk in ascending order.
C19_BackwardHigherFirst ==
    PlansBuilt =>
        \A s \in 0..(plan.N - 1) :
            IF plan.is_forward
            THEN Ascending(plan.send_ops[s]) /\ Ascending(plan.recv_ops[s])
            ELSE Descending(plan.send_ops[s]) /\ Descending(plan.recv_ops[s])

-----------------------------------------------------------------------------
(* merge_chunked_returns after the all_gather_object, on gathered partial  *)
(* results drawn from a bounded set: every stage holds, for every declared *)
(* name, a value of its own or None.                                       *)

Declared == {OutName, Out0Name}

Gathered(N) ==
    [0..(N - 1) -> [Declared -> BOOLEAN]]

InitReturns ==
    /\ PipeOff /\ otm = NoTest /\ plan = NoTest
    /\ \E N \in 1..MaxStages : \E g \in Gathered(N) :
          ret = [N |-> N,
                 returns_all_gather |->
                     [s \in 0..(N - 1) |->
                         [n \in Declared |->
                             IF g[s][n] THEN <<"merged", s, n>> ELSE None]],
                 return_tensors |-> NoTest]

Reassemble ==
    /\ ret.return_tensors = NoTest
    /\ ret' = [ret EXCEPT !.return_tensors =
                  return_tensors(ret.returns_all_gather, ret.N, Declared)]
    /\ UNCHANGED <<cfg, stage, pc, chan, pend, gather, obs, otm, plan>>

SpecReturns == InitReturns /\ [][Reassemble]_vars

\* the stages that contribute a value for a name
Contributors(n) == {s \in 0..(ret.N - 1) : ret.returns_all_gather[s][n] # None}

Reassembled == ret.return_tensors \notin {NoTest, <<"KeyError">>}

-----------------------------------------------------------------------------
(* A OneToOneMap driven by calls of add, keys and values drawn from the    *)
(* same bounded set of names.                                              *)

InitMap ==
    /\ PipeOff /\ plan = NoTest /\ ret = NoTest
    /\ otm = [m |-> OneToOneMapInit, adds |-> 0, last |-> NoTest,
              added |-> {}, inversed |-> NoTest]

Add ==
    /\ otm.adds < MaxAdds
    /\ otm.inversed = NoTest
    /\ \E key \in 1..MaxNames : \E value \in 1..MaxNames :
          otm' = [m |-> add(otm.m, key, value),
                  adds |-> otm.adds + 1,
                  added |-> IF add_raises(otm.m, key, value) THEN otm.added
                            ELSE otm.added \cup {<<key, value>>},
                  inversed |-> NoTest,
                  last |-> [key |-> key, value |-> value,
                            was_key |-> key \in DOMAIN otm.m.map,
                            was_value |-> \E k \in DOMAIN otm.m.map : otm.m.map[k] = value,
                            raised |-> add_raises(otm.m, key, value)]]
    /\ UNCHANGED <<cfg, stage, pc, chan, pend, gather, obs, plan, ret>>

\* m.inverse() and m.inverse().inverse() of the map built so far
Inverse ==
    /\ otm.inversed = NoTest
    /\ otm' = [otm EXCEPT !.inversed = [once |-> inverse(otm.m),
                                        twice |-> inverse(inverse(otm.m))]]
    /\ UNCHANGED <<cfg, stage, pc, chan, pend, gather, obs, plan, ret>>

SpecMap == InitMap /\ [][Add \/ Inverse]_vars

\* C10 as stated: add(k, v) raises whenever k is already a key or v is
\* already a value of the map.
C10_AddRejectsCollisions ==
    otm.last # NoTest =>
        ((otm.last.was_key \/ otm.last.was_value) => otm.last.raised)

\* C11 as stated: after any sequence of successful add calls, every added
\* pair (k, v) has get(k) = v and inv_get(v) = k.
C11_RoundTrip ==
    \A p \in otm.added :
        /\ p[1] \in DOMAIN otm.m.map /\ get(otm.m, p[1]) = p[2]
        /\ p[2] \in DOMAIN otm.m.inv /\ inv_get(otm.m, p[2]) = p[1]

\* C12 as stated: m.inverse().inverse() has the contents of m, m.inverse()
\* has the tables of m swapped, and m.inverse().get(v) = k exactly when
\* m.get(k) = v.
C12_InverseSwaps ==
    otm.inversed # NoTest =>
        /\ otm.inversed.twice.map = otm.m.map /\ otm.inversed.twice.inv = otm.m.inv
        /\ otm.inversed.once.map = otm.m.inv /\ otm.inversed.once.inv = otm.m.map
        /\ \A k \in 1..MaxNames : \A v \in 1..MaxNames :
              (v \in DOMAIN otm.inversed.once.map /\ get(otm.inversed.once, v) = k)
                  <=> (k \in DOMAIN otm.m.map /\ get(otm.m, k) = v)

-----------------------------------------------------------------------------
(* A.apply(B) on two OneToOneMaps, each built by at most MaxAdds - 1 calls *)
(* of add over the same bounded set of names.                              *)

RECURSIVE Built(_)
\* the maps that n calls of add can build
Built(n) ==
    IF n = 0 THEN {OneToOneMapInit}
    ELSE LET B == Built(n - 1)
         IN B \cup {add(m, key, value) : m \in B, key \in 1..MaxNames, value \in 1..MaxNames}

InitApply ==
    /\ PipeOff /\ plan = NoTest /\ ret = NoTest
    /\ \E A \in Built(MaxAdds - 1) : \E B \in Built(MaxAdds - 1) :
          otm = [A |-> A, B |-> B, applied |-> FALSE, result |-> NoTest]

Apply ==
    /\ ~otm.applied
    /\ otm' = [otm EXCEPT !.applied = TRUE, !.result = apply(otm.A, otm.B)]
    /\ UNCHANGED <<cfg, stage, pc, chan, pend, gather, obs, plan, ret>>

SpecApply == InitApply /\ [][Apply]_vars

\* _map and _inv of the map are inverse to each other
Bijective(m) ==
    /\ \A k \in DOMAIN m.map : m.map[k] \in DOMAIN m.inv /\ m.inv[m.map[k]] = k
    /\ \A v \in DOMAIN m.inv : m.inv[v] \in DOMAIN m.map /\ m.map[m.inv[v]] = v

\* C13 as stated: for bijections A and B with every value of A a key of B,
\* A.apply(B) succeeds, has exactly the keys of A, maps k to B.get(A.get(k))
\* and maps B.get(A.get(k)) back to k.
C13_ApplyComposes ==
    (/\ otm.applied
     /\ Bijective(otm.A) /\ Bijective(otm.B)
     /\ \A k \in DOMAIN otm.A.map : otm.A.map[k] \in DOMAIN otm.B.map) =>
        /\ ~otm.result.raised
        /\ DOMAIN otm.result.mapping.map = DOMAIN otm.A.map
        /\ \A k \in DOMAIN otm.A.map :
              /\ get(otm.result.mapping, k) = get(otm.B, get(otm.A, k))
              /\ inv_get(otm.result.mapping, get(otm.B, get(otm.A, k))) = k

\* C30 as stated, of the map of SpecMap: after any sequence of add calls,
\* raising ones included, _map and _inv have the same number of entries and
\* _map maps k to v if and only if _inv maps v to k.
C30_TablesInverse ==
    /\ Cardinality(DOMAIN otm.m.map) = Cardinality(DOMAIN otm.m.inv)
    /\ Bijective(otm.m)

\* C31 as stated, of the map of SpecMap: add(k, v) succeeds whenever k is not
\* a key and v is not a value of the map, also when v equals an existing key.
C31_AddAcceptsFreshPairs ==
    otm.last # NoTest =>
        ((~otm.last.was_key /\ ~otm.last.was_value) => ~otm.last.raised)

\* C32, of the map of SpecMap: a call of add that raises leaves _map and _inv
\* exactly as they were before the call.
C32_RaisingAddChangesNothing ==
    [][(otm'.adds = otm.adds + 1 /\ otm'.last.raised)
          => (otm'.m.map = otm.m.map /\ otm'.m.inv = otm.m.inv)]_vars

\* a call of add has raised on a map that holds two pairs
C32_Witness ==
    /\ otm.last # NoTest /\ otm.last.raised
    /\ Cardinality(DOMAIN otm.m.map) = 2
    /\ Cardinality(DOMAIN otm.m.inv) = 2

-----------------------------------------------------------------------------
(* PipelineStage.__init__ statement by statement, on one process: the      *)
(* check of the process group's size, _init_communication,                 *)
(* _init_runtime_states, then schedule_cls(self).  A constructor that      *)
(* raises leaves no object to call.                                        *)

\* variant: the size of the process group is not compared with the stages
ranks_unused_unchecked(world_size, num_stages) == FALSE

\* dist.get_world_size(self.pp_group) > self.num_stages
ranks_unused(world_size, num_stages) == world_size > num_stages

\* variant: _init_communication does not compare the group's size
one_stage_per_rank_unchecked(pg_world_size, num_stages) == TRUE

\* the assertion of _init_communication: one stage per rank
one_stage_per_rank(pg_world_size, num_stages) == pg_world_size = num_stages

\* the stage index to group rank mapping: peer_rank = i % pg_world_size
stage_index_to_pp_rank(num_stages, pg_world_size) ==
    [i \in 0..(num_stages - 1) |-> i % pg_world_size]

\* variant: ScheduleDAPPLE accepts a stage without a backward node
requires_backward_node_unchecked(schedule_cls, has_bw) == FALSE

\* the assertion of ScheduleDAPPLE.__init__ fails; the other schedule has none
requires_backward_node(schedule_cls, has_bw) == schedule_cls = "DAPPLE" /\ ~has_bw

\* the attributes each part of __init__ sets
CommunicationFields ==
    {"fw_kwargs_recv_info", "fw_act_send_info", "bw_kwargs_recv_info", "bw_grad_send_info",
     "fw_buffer", "bw_buffer"}

RuntimeStateFields ==
    {"cur_fw_send_chunk", "cur_bw_send_chunk", "cur_fw_chunk_id", "cur_bw_chunk_id",
     "kwargs_chunks", "saved_tensors_bw_chunks", "saved_grads_step_chunks",
     "output_grads_chunks", "returns_chunks", "output_grads_reduced", "step_grads_reduced"}

ScheduleFields == {"schedule", "num_warmup"}

\* the attributes of a set that PipelineStage(c, s) ends with
Attributes(c, s, fields) == [f \in fields |-> PipelineStage(c, s)[f]]

\* the arguments of the constructor; the group's size may differ from the
\* number of stages of the compiled program
Arguments(max_stages, max_chunks) ==
    {c \in [N : 1..max_stages, C : 1..max_chunks, steps : {1},
            world_size : 1..(max_stages + 1), stage_idx : 0..(max_stages - 1),
            schedule : {"GPipe", "DAPPLE"},
            accumulate_grads_inplace : BOOLEAN, has_bw : BOOLEAN, has_step : BOOLEAN] :
        /\ c.stage_idx < c.N
        /\ c.has_step => c.has_bw}

InitConstruct ==
    /\ \E c \in Arguments(MaxStages, MaxChunks) : cfg = c
    /\ stage = [obj |-> EmptyDict, err |-> "none", calls |-> 0]
    /\ pc = "world_size"
    /\ chan = NoTest /\ pend = NoTest /\ gather = NoTest /\ obs = NoTest
    /\ otm = NoTest /\ plan = NoTest /\ ret = NoTest

Raise(exception) ==
    /\ stage' = [stage EXCEPT !.err = exception]
    /\ pc' = "raised"

CheckWorldSize ==
    /\ pc = "world_size"
    /\ IF ranks_unused(cfg.world_size, cfg.N)
       THEN Raise("RuntimeError")
       ELSE pc' = "_init_communication" /\ UNCHANGED stage
    /\ UNCHANGED <<cfg, chan, pend, gather, obs, otm, plan, ret>>

_init_communication ==
    /\ pc = "_init_communication"
    /\ IF ~one_stage_per_rank(cfg.world_size, cfg.N)
       THEN Raise("AssertionError")
       ELSE /\ stage' = [stage EXCEPT !.obj =
                            @ @@ ("stage_index_to_group_rank" :>
                                      stage_index_to_pp_rank(cfg.N, cfg.world_size))
                              @@ Attributes(cfg, cfg.stage_idx, CommunicationFields)]
            /\ pc' = "_init_runtime_states"
    /\ UNCHANGED <<cfg, chan, pend, gather, obs, otm, plan, ret>>

_init_runtime_states ==
    /\ pc = "_init_runtime_states"
    /\ stage' = [stage EXCEPT !.obj =
                    @ @@ Attributes(cfg, cfg.stage_idx, RuntimeStateFields)]
    /\ pc' = "schedule_cls"
    /\ UNCHANGED <<cfg, chan, pend, gather, obs, otm, plan, ret>>

\* self.schedule = schedule_cls(self)
ConstructSchedule ==
    /\ pc = "schedule_cls"
    /\ IF requires_backward_node(cfg.schedule, cfg.has_bw)
       THEN Raise("AssertionError")
       ELSE /\ stage' = [stage EXCEPT !.obj =
                  @ @@ Attributes(cfg, cfg.stage_idx, {"schedule"})
                    @@ (IF cfg.schedule = "DAPPLE"
                        THEN "num_warmup" :> num_warmup(cfg.N, cfg.stage_idx, cfg.C)
                        ELSE EmptyDict)]
            /\ pc' = "constructed"
    /\ UNCHANGED <<cfg, chan, pend, gather, obs, otm, plan, ret>>

\* a training step is run on the constructed stage
RunStep ==
    /\ pc = "constructed"
    /\ stage.calls < MaxSteps
    /\ stage' = [stage EXCEPT !.calls = @ + 1]
    /\ UNCHANGED <<cfg, pc, chan, pend, gather, obs, otm, plan, ret>>

NextConstruct ==
    \/ CheckWorldSize
    \/ _init_communication
    \/ _init_runtime_states
    \/ ConstructSchedule
    \/ RunStep

SpecConstruct == InitConstruct /\ [][NextConstruct]_vars

\* C17: constructing a PipelineStage with the 1F1B schedule for a stage
\* without a backward callable never yields a stage: the constructor raises,
\* in ScheduleDAPPLE.__init__ at the latest, no schedule is ever set and no
\* step is ever run.
C17_DAPPLENeedsBackward ==
    (cfg.schedule = "DAPPLE" /\ ~cfg.has_bw) =>
        /\ pc # "constructed"
        /\ DOMAIN stage.obj \cap ScheduleFields = {}
        /\ stage.calls = 0
        /\ pc = "raised" => stage.err \in {"AssertionError", "RuntimeError"}
        /\ (pc = "raised" /\ cfg.world_size = cfg.N) =>
              /\ stage.err = "AssertionError"
              /\ RuntimeStateFields \subseteq DOMAIN stage.obj

\* the constructor has raised in ScheduleDAPPLE.__init__, after the plans
\* and the runtime states were set
C17_Witness ==
    /\ cfg.schedule = "DAPPLE" /\ ~cfg.has_bw /\ cfg.world_size = cfg.N
    /\ pc = "raised" /\ stage.err = "AssertionError"
    /\ CommunicationFields \cup RuntimeStateFields \subseteq DOMAIN stage.obj

\* C18: constructing a PipelineStage on a process group larger than the
\* number of declared stages raises RuntimeError at the size check, and at
\* no time is a communication plan, a runtime state or a schedule set.
C18_TooManyRanks ==
    cfg.world_size > cfg.N =>
        /\ pc \in {"world_size", "raised"}
        /\ pc = "raised" => stage.err = "RuntimeError"
        /\ DOMAIN stage.obj
              \cap (CommunicationFields \cup RuntimeStateFields \cup ScheduleFields) = {}
        /\ stage.calls = 0

\* the constructor has raised on a group of more ranks than stages
C18_Witness ==
    /\ cfg.world_size > cfg.N /\ cfg.N >= 2
    /\ pc = "raised" /\ stage.err = "RuntimeError"

\* C20: the num_warmup of a constructed 1F1B schedule on stage s of N with C
\* chunks is the smaller of N - s and C, hence at least 1 and at most C.
C20_NumWarmup ==
    (pc = "constructed" /\ cfg.schedule = "DAPPLE") =>
        LET W == stage.obj["num_warmup"]
        IN /\ W = (IF cfg.N - cfg.stage_idx <= cfg.C THEN cfg.N - cfg.stage_idx ELSE cfg.C)
           /\ W <= cfg.N - cfg.stage_idx /\ W <= cfg.C
           /\ 1 <= W

\* a 1F1B schedule was constructed whose warm-up is capped by the number of
\* chunks
C20_Witness ==
    /\ pc = "constructed" /\ cfg.schedule = "DAPPLE"
    /\ cfg.N - cfg.stage_idx > cfg.C
    /\ stage.obj["num_warmup"] = cfg.C

\* C33: a PipelineStage is constructed only on a process group of exactly as
\* many ranks as stages: on a smaller group the constructor raises
\* AssertionError in _init_communication before any attribute of it is set,
\* on no other size is a schedule ever set or a step run, and the stage index
\* to group rank mapping, once set, maps every stage index to itself.
C33_OneStagePerRank ==
    /\ cfg.world_size # cfg.N =>
          /\ pc \in {"world_size", "_init_communication", "raised"}
          /\ DOMAIN stage.obj = {}
          /\ stage.calls = 0
    /\ (cfg.world_size < cfg.N /\ pc = "raised") => stage.err = "AssertionError"
    /\ "stage_index_to_group_rank" \in DOMAIN stage.obj =>
          /\ cfg.world_size = cfg.N
          /\ DOMAIN stage.obj["stage_index_to_group_rank"] = 0..(cfg.N - 1)
          /\ \A i \in 0..(cfg.N - 1) : stage.obj["stage_index_to_group_rank"][i] = i

\* the constructor has raised in _init_communication on a group of fewer
\* ranks than stages
C33_Witness ==
    /\ cfg.world_size < cfg.N
    /\ pc = "raised" /\ stage.err = "AssertionError"
    /\ DOMAIN stage.obj = {}

====
